---- MODULE Spec2Model ----
(***************************************************************************)
(* Model of fuelish.py, the NDTV fuel price scraper.                       *)
(*                                                                         *)
(* main() loads four pages one after the other (state petrol, state        *)
(* diesel, city petrol, city diesel), parses the two tables of each level  *)
(* into combined rows, writes State.csv, loads the district-to-state map,  *)
(* groups the district rows by state and writes one file per state from a  *)
(* ThreadPoolExecutor of max_workers threads.                              *)
(*                                                                         *)
(* Text is a sequence of one-character strings, so that str.strip() and    *)
(* the path construction are computed, not assumed.                        *)
(***************************************************************************)
EXTENDS Integers, Sequences, FiniteSets, TLC

VARIABLES pc, exc, fetched, table_p, table_d, StateCsv, states, districts,
          district_to_state, state_groups, g_i, tasks, assets, log

vars == <<pc, exc, fetched, table_p, table_d, StateCsv, states, districts,
          district_to_state, state_groups, g_i, tasks, assets, log>>

----------------------------------------------------------------------------
(* Bounds and program constants *)

NumDistricts == 9

MaxRows == 3

max_workers == 8

----------------------------------------------------------------------------
(* Text helpers *)

Whitespace == {" ", "\t", "\n"}

RECURSIVE lstrip(_)
lstrip(s) == IF s # <<>> /\ Head(s) \in Whitespace THEN lstrip(Tail(s)) ELSE s

RECURSIVE rstrip(_)
rstrip(s) ==
    IF s # <<>> /\ s[Len(s)] \in Whitespace
    THEN rstrip(SubSeq(s, 1, Len(s) - 1))
    ELSE s

strip(s) == rstrip(lstrip(s))

Min(a, b) == IF a < b THEN a ELSE b

Range(s) == {s[i] : i \in DOMAIN s}

----------------------------------------------------------------------------
(* Pages and tables.  A page load ends in a table (a sequence of tr rows,  *)
(* each a sequence of td cells) or in no table; a cell has its text and    *)
(* the set of chngBx markers found inside it.                              *)

Cell(t, m) == [text |-> t, marks |-> m]

NoTable == [found |-> FALSE, rows |-> <<>>]

Table(rs) == [found |-> TRUE, rows |-> rs]

NoFile == [exists |-> FALSE, rows |-> <<>>]

File(rs) == [exists |-> TRUE, rows |-> rs]

Msg(k, a) == [kind |-> k, arg |-> a]

\* rows[1:] of a Python list
drop_first(rows) == IF rows = <<>> THEN <<>> ELSE Tail(rows)

\* the if / elif / else on the change cell
change_str(ch) ==
    IF "up" \in ch.marks THEN <<"+", " ">> \o strip(ch.text)
    ELSE IF "down" \in ch.marks THEN <<"-", " ">> \o strip(ch.text)
    ELSE <<" ", " ">> \o strip(ch.text)

NoLists == [name |-> <<>>, price |-> <<>>, change |-> <<>>]

\* the loop over the petrol table's rows
RECURSIVE petrol_loop(_, _)
petrol_loop(rows, acc) ==
    IF rows = <<>> THEN acc
    ELSE LET tds == Head(rows) IN
         IF Len(tds) < 3 THEN petrol_loop(Tail(rows), acc)
         ELSE petrol_loop(Tail(rows),
                [name   |-> Append(acc.name, strip(tds[1].text)),
                 price  |-> Append(acc.price, strip(tds[2].text)),
                 change |-> Append(acc.change, change_str(tds[3]))])

\* a diesel loop that keeps the short rows' place
RECURSIVE diesel_loop_noskip(_, _)
diesel_loop_noskip(rows, acc) ==
    IF rows = <<>> THEN acc
    ELSE LET tds == Head(rows) IN
         IF Len(tds) < 3
         THEN diesel_loop_noskip(Tail(rows),
                [name   |-> acc.name,
                 price  |-> Append(acc.price, <<>>),
                 change |-> Append(acc.change, <<" ", " ">>)])
         ELSE diesel_loop_noskip(Tail(rows),
                [name   |-> acc.name,
                 price  |-> Append(acc.price, strip(tds[2].text)),
                 change |-> Append(acc.change, change_str(tds[3]))])

\* the loop over the diesel table's rows
RECURSIVE diesel_loop(_, _)
diesel_loop(rows, acc) ==
    IF rows = <<>> THEN acc
    ELSE LET tds == Head(rows) IN
         IF Len(tds) < 3 THEN diesel_loop(Tail(rows), acc)
         ELSE diesel_loop(Tail(rows),
                [name   |-> acc.name,
                 price  |-> Append(acc.price, strip(tds[2].text)),
                 change |-> Append(acc.change, change_str(tds[3]))])

\* zip(name, price_p, change_p, price_d, change_d) as a list of rows
zip5(p, d) ==
    LET n == Min(Min(Len(p.name), Min(Len(p.price), Len(p.change))),
                 Min(Len(d.price), Len(d.change)))
    IN [k \in 1..n |-> <<p.name[k], p.price[k], p.change[k],
                         d.price[k], d.change[k]>>]

\* the rows both scrapers build from their two tables
combine(tp, td) ==
    zip5(petrol_loop(drop_first(tp.rows), NoLists),
         diesel_loop(drop_first(td.rows), NoLists))

StateHeader == <<<<"State">>, <<"Price(P)">>, <<"Change(P)">>,
                 <<"Price(D)">>, <<"Change(D)">>>>

DistrictHeader == <<<<"District">>, <<"Price(P)">>, <<"Change(P)">>,
                    <<"Price(D)">>, <<"Change(D)">>>>

----------------------------------------------------------------------------
(* Path of a state's file and dictionary helpers *)

\* a path that keeps only the first character of the state's name
file_path_first(state_name) ==
    <<"assets", "/">> \o <<Head(state_name)>> \o <<".csv">>

\* os.path.join("assets", name + ".csv"): an absolute second part wins
file_path(state_name) ==
    IF state_name # <<>> /\ Head(state_name) = "/"
    THEN state_name \o <<".csv">>
    ELSE <<"assets", "/">> \o state_name \o <<".csv">>

\* dict.get(key): the value, or None
dict_get(m, k) ==
    IF k \in DOMAIN m THEN [found |-> TRUE, value |-> m[k]]
    ELSE [found |-> FALSE, value |-> <<>>]

\* "not state_name": None and the empty string are both falsy
falsy(r) == ~r.found \/ r.value = <<>>

\* a grouping that replaces a state's list instead of appending to it
setdefault_append_last(groups, state_name, rec) ==
    IF \E i \in DOMAIN groups : groups[i].name = state_name
    THEN [i \in DOMAIN groups |->
            IF groups[i].name = state_name
            THEN [name |-> state_name, data |-> <<rec>>]
            ELSE groups[i]]
    ELSE Append(groups, [name |-> state_name, data |-> <<rec>>])

\* state_groups.setdefault(state_name, []).append(rec), dict order kept
setdefault_append(groups, state_name, rec) ==
    IF \E i \in DOMAIN groups : groups[i].name = state_name
    THEN [i \in DOMAIN groups |->
            IF groups[i].name = state_name
            THEN [name |-> state_name, data |-> Append(groups[i].data, rec)]
            ELSE groups[i]]
    ELSE Append(groups, [name |-> state_name, data |-> <<rec>>])

----------------------------------------------------------------------------
(* The pages and lookup files the model runs on *)

Letters == <<"a", "b", "c", "d", "e", "f", "g", "h", "i", "j", "k", "l">>

T(c) == Cell(c, {})

HeaderRow == <<>>

\* state-level pages: two states, with blanks around the names
StatePetrolTable ==
    Table(<<HeaderRow,
            <<T(<<" ", "M">>), T(<<"1", "0", "5">>), Cell(<<"5", "0">>, {"up"})>>,
            <<T(<<"K", " ">>), T(<<"1", "0", "8">>), Cell(<<"2", "5">>, {"down"})>>>>)

StateDieselTable ==
    Table(<<HeaderRow,
            <<T(<<"M">>), T(<<"9", "2">>), T(<<>>)>>,
            <<T(<<"K">>), T(<<"9", "0">>), Cell(<<>>, {"up", "down"})>>>>)

\* city-level pages: one row per district a, b, c, ...
BigPetrolTable ==
    Table(<<HeaderRow>> \o
          [i \in 1..NumDistricts |->
             <<T(<<" ", Letters[i]>>), T(<<"9">>), Cell(<<"1">>, {"up"})>>])

BigDieselTable ==
    Table(<<HeaderRow>> \o
          [i \in 1..NumDistricts |->
             <<T(<<Letters[i]>>), T(<<"8">>), T(<<>>)>>])

\* a short row, a mapped district, an unmapped one and a blank name
SmallPetrolTable ==
    Table(<<HeaderRow,
            <<T(<<"x">>), T(<<"y">>)>>,
            <<T(<<"a", "\n">>), T(<<"9">>), Cell(<<"1">>, {"down"})>>,
            <<T(<<"z">>), T(<<"7">>), T(<<>>)>>,
            <<T(<<" ">>), T(<<>>), T(<<>>)>>>>)

SmallDieselTable ==
    Table(<<HeaderRow,
            <<T(<<"a">>), T(<<"8">>), T(<<>>)>>,
            <<T(<<"x">>)>>,
            <<T(<<"z">>), T(<<"6">>), Cell(<<"2">>, {"up"})>>>>)

HeaderOnlyTable == Table(<<HeaderRow>>)

StatePetrolPages == {StatePetrolTable, NoTable}

StateDieselPages == {StateDieselTable, NoTable}

CityPetrolPages == {BigPetrolTable, SmallPetrolTable, HeaderOnlyTable, NoTable}

CityDieselPages == {BigDieselTable, SmallDieselTable, NoTable}

DistrictNames == {<<Letters[i]>> : i \in 1..NumDistricts}

\* every district in a state of its own
MapOneEach == [d \in DistrictNames |-> <<"S", d[1]>>]

\* two states; district c is no key, district d has an empty value
MapTwoStates ==
    [d \in DistrictNames \ {<<"c">>} |->
        IF d = <<"d">> THEN <<>>
        ELSE IF d \in {<<"a">>, <<"e">>} THEN <<"X">> ELSE <<"Y">>]

LookupFiles == {MapOneEach, MapTwoStates}

----------------------------------------------------------------------------
(* The run *)

Init ==
    /\ pc = "state_petrol"
    /\ exc = "none"
    /\ fetched = <<>>
    /\ table_p = NoTable
    /\ table_d = NoTable
    /\ StateCsv = NoFile
    /\ states = <<>>
    /\ districts = <<>>
    /\ district_to_state = <<>>
    /\ state_groups = <<>>
    /\ g_i = 0
    /\ tasks = <<>>
    /\ assets = <<>>
    /\ log = {}

\* an uncaught exception ends main()
Raise(e) ==
    /\ pc' = "aborted"
    /\ exc' = e

\* driver.get(url); wait_for_table(driver); soup.find("table")
StateGetPetrol ==
    /\ pc = "state_petrol"
    /\ fetched' = Append(fetched, "state_petrol")
    /\ \/ /\ Raise("TimeoutException")
          /\ UNCHANGED table_p
       \/ /\ \E t \in StatePetrolPages : table_p' = t
          /\ pc' = "state_diesel"
          /\ UNCHANGED exc
    /\ UNCHANGED <<table_d, StateCsv, states, districts, district_to_state,
                   state_groups, g_i, tasks, assets, log>>

StateGetDiesel ==
    /\ pc = "state_diesel"
    /\ fetched' = Append(fetched, "state_diesel")
    /\ \/ /\ Raise("TimeoutException")
          /\ UNCHANGED table_d
       \/ /\ \E t \in StateDieselPages : table_d' = t
          /\ pc' = "state_parse"
          /\ UNCHANGED exc
    /\ UNCHANGED <<table_p, StateCsv, states, districts, district_to_state,
                   state_groups, g_i, tasks, assets, log>>

\* the rest of scrape_state_level: the None check, both loops, State.csv
StateParse ==
    /\ pc = "state_parse"
    /\ IF ~table_p.found \/ ~table_d.found
       THEN /\ log' = log \cup {Msg("no_state_table", <<>>)}
            /\ states' = <<>>
            /\ pc' = "city_petrol"
            /\ UNCHANGED <<exc, StateCsv>>
       ELSE LET out == <<StateHeader>> \o combine(table_p, table_d) IN
            \/ /\ StateCsv' = File(out)
               /\ log' = log \cup {Msg("state_saved", <<>>)}
               /\ states' = petrol_loop(drop_first(table_p.rows), NoLists).name
               /\ pc' = "city_petrol"
               /\ UNCHANGED exc
            \/ /\ Raise("OSError")
               /\ UNCHANGED <<StateCsv, states, log>>
    /\ UNCHANGED <<fetched, table_p, table_d, districts, district_to_state,
                   state_groups, g_i, tasks, assets>>

CityGetPetrol ==
    /\ pc = "city_petrol"
    /\ fetched' = Append(fetched, "city_petrol")
    /\ log' = log \cup {Msg("starting_districts", <<>>)}
    /\ \/ /\ Raise("TimeoutException")
          /\ UNCHANGED table_p
       \/ /\ \E t \in CityPetrolPages : table_p' = t
          /\ pc' = "city_diesel"
          /\ UNCHANGED exc
    /\ UNCHANGED <<table_d, StateCsv, states, districts, district_to_state,
                   state_groups, g_i, tasks, assets>>

CityGetDiesel ==
    /\ pc = "city_diesel"
    /\ fetched' = Append(fetched, "city_diesel")
    /\ \/ /\ Raise("TimeoutException")
          /\ UNCHANGED table_d
       \/ /\ \E t \in CityDieselPages : table_d' = t
          /\ pc' = "city_parse"
          /\ UNCHANGED exc
    /\ UNCHANGED <<table_p, StateCsv, states, districts, district_to_state,
                   state_groups, g_i, tasks, assets, log>>

\* the rest of scrape_all_districts, up to its return
CityParse ==
    /\ pc = "city_parse"
    /\ IF ~table_p.found \/ ~table_d.found
       THEN /\ log' = log \cup {Msg("no_district_table", <<>>)}
            /\ districts' = <<>>
       ELSE /\ districts' = combine(table_p, table_d)
            /\ UNCHANGED log
    /\ pc' = "check_districts"
    /\ UNCHANGED <<exc, fetched, table_p, table_d, StateCsv, states,
                   district_to_state, state_groups, g_i, tasks, assets>>

\* back in main: the scraper's frame is gone; driver.quit(); "if not
\* districts" ends the run
CheckDistricts ==
    /\ pc = "check_districts"
    /\ table_p' = NoTable
    /\ table_d' = NoTable
    /\ IF districts = <<>>
       THEN /\ log' = log \cup {Msg("no_district_data", <<>>),
                                Msg("updated", <<>>)}
            /\ pc' = "returned"
       ELSE /\ pc' = "load_map"
            /\ UNCHANGED log
    /\ UNCHANGED <<exc, fetched, StateCsv, states, districts,
                   district_to_state, state_groups, g_i, tasks, assets>>

\* open("src/district_state_map.json") and json.load
LoadMap ==
    /\ pc = "load_map"
    /\ \/ /\ Raise("ConfigLoadFailed")
          /\ UNCHANGED <<district_to_state, log>>
       \/ /\ \E m \in LookupFiles : district_to_state' = m
          /\ log' = log \cup {Msg("loaded_map", <<>>)}
          /\ pc' = "grouping"
          /\ UNCHANGED exc
    /\ UNCHANGED <<fetched, table_p, table_d, StateCsv, states, districts,
                   state_groups, g_i, tasks, assets>>

\* one iteration of "for district, ... in districts"
GroupStep ==
    /\ pc = "grouping"
    /\ g_i < Len(districts)
    /\ LET rec == districts[g_i + 1]
           district == rec[1]
           state_name == dict_get(district_to_state, district)
       IN IF falsy(state_name)
          THEN /\ log' = log \cup {Msg("state_not_found", district)}
               /\ UNCHANGED state_groups
          ELSE /\ state_groups' =
                     setdefault_append(state_groups, state_name.value, rec)
               /\ UNCHANGED log
    /\ g_i' = g_i + 1
    /\ pc' = IF g_i + 1 = Len(districts) THEN "submit" ELSE "grouping"
    /\ UNCHANGED <<exc, fetched, table_p, table_d, StateCsv, states, districts,
                   district_to_state, tasks, assets>>

Running == {i \in DOMAIN tasks : tasks[i].status = "running"}

Queued == {i \in DOMAIN tasks : tasks[i].status = "queued"}

Finished == {i \in DOMAIN tasks : tasks[i].status \notin {"queued", "running"}}

\* a submit that may run while the grouping loop is still going
SubmitTask_early ==
    /\ pc \in {"grouping", "submit"}
    /\ Len(tasks) < Len(state_groups)
    /\ LET g == state_groups[Len(tasks) + 1]
       IN tasks' = Append(tasks, [state_name |-> g.name,
                                  districts  |-> g.data,
                                  status     |-> "queued"])
    /\ UNCHANGED <<pc, exc, fetched, table_p, table_d, StateCsv, states,
                   districts, district_to_state, state_groups, g_i, assets,
                   log>>

\* executor.submit(save_state_districts, state_name, data), next dict item
SubmitTask ==
    /\ pc = "submit"
    /\ Len(tasks) < Len(state_groups)
    /\ LET g == state_groups[Len(tasks) + 1]
       IN tasks' = Append(tasks, [state_name |-> g.name,
                                  districts  |-> g.data,
                                  status     |-> "queued"])
    /\ UNCHANGED <<pc, exc, fetched, table_p, table_d, StateCsv, states,
                   districts, district_to_state, state_groups, g_i, assets,
                   log>>

\* an idle pool thread takes the oldest work item off the queue
WorkerStart ==
    /\ Queued # {}
    /\ Cardinality(Running) < max_workers
    /\ LET i == CHOOSE q \in Queued : \A r \in Queued : q <= r
       IN tasks' = [tasks EXCEPT ![i].status = "running"]
    /\ UNCHANGED <<pc, exc, fetched, table_p, table_d, StateCsv, states,
                   districts, district_to_state, state_groups, g_i, assets,
                   log>>

\* a save that writes nothing
WorkerSaveOk_nofile ==
    \E i \in Running :
        /\ tasks' = [tasks EXCEPT ![i].status = "ok"]
        /\ log' = log \cup {Msg("path", file_path(tasks[i].state_name)),
                            Msg("saved", tasks[i].state_name)}
        /\ UNCHANGED <<pc, exc, fetched, table_p, table_d, StateCsv, states,
                       districts, district_to_state, state_groups, g_i,
                       assets>>

\* save_state_districts runs to its end
WorkerSaveOk ==
    \E i \in Running :
        /\ tasks' = [tasks EXCEPT ![i].status = "ok"]
        /\ assets' = (file_path(tasks[i].state_name) :>
                        (<<DistrictHeader>> \o tasks[i].districts)) @@ assets
        /\ log' = log \cup {Msg("path", file_path(tasks[i].state_name)),
                            Msg("saved", tasks[i].state_name)}
        /\ UNCHANGED <<pc, exc, fetched, table_p, table_d, StateCsv, states,
                       districts, district_to_state, state_groups, g_i>>

\* a failure that also drops the work items still queued
WorkerSaveFail_cancel ==
    \E i \in Running :
        /\ tasks' = [j \in DOMAIN tasks |->
                       IF j = i
                       THEN [tasks[j] EXCEPT !.status = "failed"]
                       ELSE IF tasks[j].status = "queued"
                       THEN [tasks[j] EXCEPT !.status = "cancelled"]
                       ELSE tasks[j]]
        /\ log' = log \cup {Msg("path", file_path(tasks[i].state_name))}
        /\ UNCHANGED <<pc, exc, fetched, table_p, table_d, StateCsv, states,
                       districts, district_to_state, state_groups, g_i,
                       assets>>

\* save_state_districts raises in open() or while writing: the exception is
\* kept in the task's future, which nobody reads
WorkerSaveFail ==
    \E i \in Running :
        /\ tasks' = [tasks EXCEPT ![i].status = "failed"]
        /\ log' = log \cup {Msg("path", file_path(tasks[i].state_name))}
        /\ UNCHANGED <<pc, exc, fetched, table_p, table_d, StateCsv, states,
                       districts, district_to_state, state_groups, g_i,
                       assets>>

\* leaving the with block: shutdown(wait=True), then the two last prints
ExecutorExit ==
    /\ pc = "submit"
    /\ Len(tasks) = Len(state_groups)
    /\ Finished = DOMAIN tasks
    /\ log' = log \cup {Msg("all_saved", <<>>), Msg("updated", <<>>)}
    /\ pc' = "done"
    /\ UNCHANGED <<exc, fetched, table_p, table_d, StateCsv, states, districts,
                   district_to_state, state_groups, g_i, tasks, assets>>

Next ==
    \/ StateGetPetrol
    \/ StateGetDiesel
    \/ StateParse
    \/ CityGetPetrol
    \/ CityGetDiesel
    \/ CityParse
    \/ CheckDistricts
    \/ LoadMap
    \/ GroupStep
    \/ SubmitTask
    \/ WorkerStart
    \/ WorkerSaveOk
    \/ WorkerSaveFail
    \/ ExecutorExit

Spec == Init /\ [][Next]_vars

----------------------------------------------------------------------------
(* The two parsers on arbitrary small tables: a run that stands right      *)
(* after the two page loads of one level, with any pair of tables.         *)

RowShort == <<T(<<"x">>), T(<<"1">>)>>

RowA == <<T(<<" ", "a">>), T(<<"1", " ">>), Cell(<<"5">>, {"up"}), T(<<"n">>)>>

RowB == <<T(<<"b">>), T(<<"2">>), Cell(<<>>, {"down"})>>

RowBlank == <<T(<<" ">>), T(<<>>), T(<<"\n">>)>>

RowSet == {RowShort, RowA, RowB, RowBlank}

TableSet == {NoTable} \cup
            {Table(rs) : rs \in UNION {[1..n -> RowSet] : n \in 0..MaxRows}}

ParseInit ==
    /\ exc = "none"
    /\ table_p \in TableSet
    /\ table_d \in TableSet
    /\ StateCsv = NoFile
    /\ states = <<>>
    /\ districts = <<>>
    /\ district_to_state = <<>>
    /\ state_groups = <<>>
    /\ g_i = 0
    /\ tasks = <<>>
    /\ assets = <<>>
    /\ \/ /\ pc = "state_parse"
          /\ fetched = <<"state_petrol", "state_diesel">>
          /\ log = {}
       \/ /\ pc = "city_parse"
          /\ fetched = <<"state_petrol", "state_diesel",
                         "city_petrol", "city_diesel">>
          /\ log = {Msg("no_state_table", <<>>),
                    Msg("starting_districts", <<>>)}

ParseNext ==
    \/ StateParse
    \/ CityParse

ParseSpec == ParseInit /\ [][ParseNext]_vars

----------------------------------------------------------------------------
(* Claims *)

Retained(t) ==
    SelectSeq(SubSeq(t.rows, 2, Len(t.rows)), LAMBDA r : Len(r) >= 3)

IsZipOf(out, tp, td) ==
    LET rp == Retained(tp)
        rd == Retained(td)
    IN /\ Len(out) = Min(Len(rp), Len(rd))
       /\ \A k \in 1..Len(out) :
            out[k] = <<strip(rp[k][1].text), strip(rp[k][2].text),
                       change_str(rp[k][3]),
                       strip(rd[k][2].text), change_str(rd[k][3])>>

EmittedRows ==
    Range(districts) \cup
    (IF StateCsv.exists THEN Range(Tail(StateCsv.rows)) ELSE {})

Resolves(d) == d \in DOMAIN district_to_state /\ district_to_state[d] # <<>>

ResolvedStates ==
    {district_to_state[r[1]] : r \in {x \in Range(districts) : Resolves(x[1])}}

FailedStates == {tasks[i].state_name : i \in {j \in DOMAIN tasks : tasks[j].status = "failed"}}

FinalGroup(s) ==
    SelectSeq(districts, LAMBDA r : Resolves(r[1]) /\ district_to_state[r[1]] = s)

GroupsHolding(rec) ==
    {k \in DOMAIN state_groups :
        \E i \in DOMAIN state_groups[k].data : state_groups[k].data[i] = rec}

\* C1: a page whose table does not appear within the wait never aborts the
\* run: no run ends with the wait's TimeoutException.
C1_TimeoutRecoverable == exc # "TimeoutException"

\* C2: when loading the lookup fails, no page has been fetched and no output
\* file has been written at the moment of the abort.
C2_AbortBeforeFetch ==
    exc = "ConfigLoadFailed" =>
        fetched = <<>> /\ ~StateCsv.exists /\ DOMAIN assets = {}

\* C3: at the end of the run every state whose write task failed has a
\* diagnostic of that failure in the log.
C3_FailureReported ==
    pc = "done" =>
        \A i \in DOMAIN tasks :
            tasks[i].status = "failed" =>
                Msg("write_failed", tasks[i].state_name) \in log

\* C4: write failures are isolated: no task is ever dropped, and the run
\* ends only when one task per state group has been submitted and each has
\* run to its end, with the file of every task that did not fail written in
\* full.
C4_FailureIsolated ==
    /\ \A i \in DOMAIN tasks :
          tasks[i].status \in {"queued", "running", "ok", "failed"}
    /\ pc = "done" =>
          /\ Len(tasks) = Len(state_groups)
          /\ \A i \in DOMAIN tasks :
                /\ tasks[i].status \in {"ok", "failed"}
                /\ tasks[i].status = "ok" =>
                      /\ file_path(tasks[i].state_name) \in DOMAIN assets
                      /\ assets[file_path(tasks[i].state_name)] =
                            <<DistrictHeader>> \o FinalGroup(tasks[i].state_name)

C4_Witness ==
    /\ pc = "done"
    /\ \E i, j \in DOMAIN tasks :
          /\ i < j
          /\ tasks[i].status = "failed"
          /\ tasks[j].status = "ok"
    /\ Len(tasks) > max_workers

C6_KeyMeansGrouped ==
    \A j \in 1..g_i :
        LET rec == districts[j]
            holding == GroupsHolding(rec)
        IN IF rec[1] \in DOMAIN district_to_state
           THEN /\ holding # {}
                /\ \A k \in holding :
                      state_groups[k].name = district_to_state[rec[1]]
           ELSE /\ holding = {}
                /\ Msg("state_not_found", rec[1]) \in log

\* C6 as amended: every record handled so far whose district is a key of
\* the lookup with a non-empty state value is in the group of that state and
\* in no other; every other record (no key, or an empty value) is in no
\* group and has its warning; the grouping never aborts the run; and no
\* group ever holds a record of an unresolved district.
C6_ResolvedMeansGrouped ==
    /\ \A j \in 1..g_i :
          LET rec == districts[j]
              holding == GroupsHolding(rec)
          IN IF Resolves(rec[1])
             THEN /\ holding # {}
                  /\ \A k \in holding :
                        state_groups[k].name = district_to_state[rec[1]]
             ELSE /\ holding = {}
                  /\ Msg("state_not_found", rec[1]) \in log
    /\ \A k \in DOMAIN state_groups :
          \A i \in DOMAIN state_groups[k].data :
              /\ Resolves(state_groups[k].data[i][1])
              /\ district_to_state[state_groups[k].data[i][1]]
                    = state_groups[k].name
    /\ pc = "grouping" => exc = "none"

C6_Witness ==
    /\ pc = "submit"
    /\ \E r \in Range(districts) : r[1] \notin DOMAIN district_to_state
    /\ \E r \in Range(districts) :
          r[1] \in DOMAIN district_to_state /\ ~Resolves(r[1])
    /\ \E k \in DOMAIN state_groups : Len(state_groups[k].data) >= 2

\* C7: from the first submission on, the grouping loop is over and every
\* group, and the list every write task was given, is the complete final
\* group of its state.
C7_GroupingBarrier ==
    tasks # <<>> =>
        /\ g_i = Len(districts)
        /\ pc \in {"submit", "done"}
        /\ \A k \in DOMAIN state_groups :
              /\ state_groups[k].data = FinalGroup(state_groups[k].name)
              /\ k \in DOMAIN tasks =>
                    /\ tasks[k].state_name = state_groups[k].name
                    /\ tasks[k].districts = state_groups[k].data

C7_Witness ==
    /\ Running # {}
    /\ Len(tasks) < Len(state_groups)
    /\ \E i \in Running : Len(tasks[i].districts) >= 2

\* C8: no two write tasks have the same file target, there is exactly one
\* task per state group in the groups' order, and at most max_workers tasks
\* run at once.
C8_OneWriterPerFile ==
    /\ Cardinality({file_path(tasks[i].state_name) : i \in DOMAIN tasks})
          = Len(tasks)
    /\ Len(tasks) <= Len(state_groups)
    /\ \A i \in DOMAIN tasks : tasks[i].state_name = state_groups[i].name
    /\ Cardinality({state_groups[k].name : k \in DOMAIN state_groups})
          = Len(state_groups)
    /\ Cardinality(Running) <= max_workers
    /\ pc = "done" => Len(tasks) = Len(state_groups)

C8_Witness ==
    /\ Cardinality(Running) = max_workers
    /\ Queued # {}

\* C9: once a parser has run on two tables, its rows are the positional zip
\* of the rows each table retains after its first row and its rows of fewer
\* than 3 cells are dropped, as many as the shorter retained sequence.
C9_PositionalZip ==
    /\ (pc = "city_petrol" /\ StateCsv.exists) =>
          /\ StateCsv.rows[1] = StateHeader
          /\ IsZipOf(Tail(StateCsv.rows), table_p, table_d)
    /\ (pc = "check_districts" /\ table_p.found /\ table_d.found) =>
          IsZipOf(districts, table_p, table_d)

C9_Witness ==
    /\ pc = "check_districts"
    /\ Len(districts) >= 1
    /\ Len(Retained(table_p)) > Len(districts)
    /\ \E i \in 2..Len(table_d.rows) : Len(table_d.rows[i]) < 3

\* C10: every emitted row has a non-empty name and non-empty prices.
C10_NameAndPriceNonEmpty ==
    \A rec \in EmittedRows : rec[1] # <<>> /\ rec[2] # <<>> /\ rec[4] # <<>>

====
